---- MODULE Spec2Model ----
(***************************************************************************)
(* Model of src/index.tsx: the App component's UI state and the            *)
(* fetchProducts workflow (one text call, a fan-out of image calls joined  *)
(* by Promise.all, one catch/finally), plus the LiveChat click handlers.   *)
(*                                                                         *)
(* One action is one macrotask of the UI thread: a network response (or a  *)
(* click) together with every promise reaction it triggers, because        *)
(* microtasks run to completion before the next macrotask starts.          *)
(***************************************************************************)
EXTENDS Integers, Sequences, FiniteSets

VARIABLES
    products,         \* useState([])    (line 77)
    loading,          \* useState(true)  (line 78)
    error,            \* useState('')    (line 79)
    isChatOpen,       \* useState(false) (line 80)
    pc,               \* where fetchProducts is suspended
    textCall,         \* the generateContent call of line 94
    productTextData,  \* JSON.parse(textResponse.text), line 114
    imageCalls,       \* productPromises, line 116: one entry per generateImages call
    firstFulfilled,   \* index of the image call that fulfilled first (0: none yet)
    lateResponse      \* an image call settled after fetchProducts had returned

vars == <<products, loading, error, isChatOpen, pc, textCall, productTextData,
          imageCalls, firstFulfilled, lateResponse>>

ui == <<products, loading, error>>

-----------------------------------------------------------------------------
(* Bounds of the model and constants of the program *)

\* Text replies of every length 0..MaxItems are explored.
MaxItems == 3

\* The catalogue is replied starting at any of its first MaxRotation+1 items.
MaxRotation == 1

\* At most this many network calls never respond.
MaxHung == 1

\* "Generate a list of 5 unique ... merchandise items" (the prompt, line 89).
RequestedCount == 5

\* setError('Failed to generate merchandise. Please try again later.')
ErrorMessage == "Failed to generate merchandise. Please try again later."

\* `data:image/png;base64,${base64ImageBytes}`
DataUriPrefix == "data:image/png;base64,"

\* What an image call may return as imageBytes.
ImageBytes == {"AAAA", "BBBB"}

\* The ProductSpec values the text service draws its reply from (price in cents).
Catalog ==
    << [name |-> "Boss Tee", description |-> "Defeat lag in style", price |-> 2499],
       [name |-> "GG Hoodie", description |-> "Warm wins only", price |-> 3950],
       [name |-> "Respawn Cap", description |-> "Back in the game", price |-> 1500] >>

\* Reply lengths: short replies, the requested count, and one item too many
\* (the response schema of lines 99-110 puts no limit on the array).
ReplyLengths == (0..MaxItems) \cup {RequestedCount, RequestedCount + 1}

Reply(n, r) == [i \in 1..n |-> Catalog[((i - 1 + r) % Len(Catalog)) + 1]]

TextReplies == {Reply(n, r) : n \in ReplyLengths, r \in 0..MaxRotation}

MaxCalls == IF MaxItems > RequestedCount + 1 THEN MaxItems ELSE RequestedCount + 1

-----------------------------------------------------------------------------
(* Pure parts of fetchProducts *)

NoProduct == [name |-> "", description |-> "", price |-> 0, imageUrl |-> ""]

PendingCall == [status |-> "pending", bytes |-> "", value |-> NoProduct]

ImageUrlWithoutPrefix(base64ImageBytes) == base64ImageBytes

\* line 130
ImageUrl(base64ImageBytes) == DataUriPrefix \o base64ImageBytes

\* line 132: { ...product, imageUrl }
MergeProduct(product, imageUrl) ==
    [name |-> product.name, description |-> product.description,
     price |-> product.price, imageUrl |-> imageUrl]

AnyRejected(calls) == \E i \in 1..Len(calls) : calls[i].status = "rejected"

AnyFulfilled(calls) ==
    Len(calls) = 0 \/ \E i \in 1..Len(calls) : calls[i].status = "fulfilled"

\* Promise.all fulfils when every input promise has fulfilled.
AllFulfilled(calls) == \A i \in 1..Len(calls) : calls[i].status = "fulfilled"

\* The values with the one that fulfilled first moved to the front.
ValuesFirstFulfilledFirst(calls) ==
    IF firstFulfilled \in 2..Len(calls)
    THEN [k \in 1..Len(calls) |->
            IF k = 1 THEN calls[firstFulfilled].value
            ELSE IF k <= firstFulfilled THEN calls[k - 1].value
            ELSE calls[k].value]
    ELSE [k \in 1..Len(calls) |-> calls[k].value]

ValuesCutToRequestedCount(calls) ==
    [k \in 1..(IF Len(calls) < RequestedCount THEN Len(calls) ELSE RequestedCount)
        |-> calls[k].value]

\* Promise.all's fulfilment value: the inputs' values, by input position.
PromiseAllValues(calls) == [k \in 1..Len(calls) |-> calls[k].value]

-----------------------------------------------------------------------------
(* The view: what App renders from the UI state (lines 152-162) *)

LoaderRendered == loading
ErrorRendered == error # ""
GridRendered == ~loading /\ error = ""
RenderedCount == IF GridRendered THEN Len(products) ELSE 0

-----------------------------------------------------------------------------
Init ==
    /\ products = <<>>
    /\ loading = TRUE
    /\ error = ""
    /\ isChatOpen = FALSE
    /\ pc = "mounted"
    /\ textCall = "idle"
    /\ productTextData = <<>>
    /\ imageCalls = <<>>
    /\ firstFulfilled = 0
    /\ lateResponse = FALSE

HungCount ==
    (IF textCall = "hung" THEN 1 ELSE 0)
    + Cardinality({i \in 1..Len(imageCalls) : imageCalls[i].status = "hung"})

CatchWithoutFinally ==
    /\ error' = ErrorMessage
    /\ pc' = "done"
    /\ UNCHANGED <<products, loading>>

\* lines 138-143: catch, then finally
CatchThenFinally ==
    /\ error' = ErrorMessage
    /\ loading' = FALSE
    /\ pc' = "done"
    /\ UNCHANGED products

\* lines 136 and 141-143: setProducts, then finally
SetProductsThenFinally(productsWithImages) ==
    /\ products' = productsWithImages
    /\ loading' = FALSE
    /\ pc' = "done"
    /\ UNCHANGED error

\* line 135: await Promise.all(productPromises), given the promises' states
AwaitPromiseAll(calls) ==
    IF AnyRejected(calls) THEN CatchThenFinally
    ELSE IF AllFulfilled(calls) THEN SetProductsThenFinally(PromiseAllValues(calls))
    ELSE pc' = "awaitAll" /\ UNCHANGED ui

\* setProducts called from every image callback rather than after the join.
ResumeSettingProductsPerImage(calls) ==
    IF pc = "done"
    THEN /\ products' = SelectSeq(PromiseAllValues(calls), LAMBDA p : p # NoProduct)
         /\ UNCHANGED <<loading, error, pc>>
    ELSE AwaitPromiseAll(calls)

\* A settled Promise.all ignores its inputs: once fetchProducts has returned,
\* an image call that settles has no continuation left to run.
ResumeFetchProducts(calls) ==
    IF pc = "done" THEN UNCHANGED <<ui, pc>> ELSE AwaitPromiseAll(calls)

\* lines 82-94 and 146: the effect runs fetchProducts up to its first await
Start ==
    /\ pc = "mounted"
    /\ loading' = TRUE
    /\ error' = ""
    /\ textCall' = "pending"
    /\ pc' = "awaitText"
    /\ UNCHANGED <<products, isChatOpen, productTextData, imageCalls,
                   firstFulfilled, lateResponse>>

\* the text call never responds
TextHang ==
    /\ textCall = "pending"
    /\ HungCount < MaxHung
    /\ textCall' = "hung"
    /\ UNCHANGED <<ui, isChatOpen, pc, productTextData, imageCalls,
                   firstFulfilled, lateResponse>>

\* The fan-out is started but fetchProducts does not wait for it.
TextResolveWithoutAwait(reply) ==
    /\ pc = "awaitText"
    /\ textCall = "pending"
    /\ textCall' = "fulfilled"
    /\ productTextData' = reply
    /\ imageCalls' = [i \in 1..Len(reply) |-> PendingCall]
    /\ SetProductsThenFinally(<<>>)
    /\ UNCHANGED <<isChatOpen, firstFulfilled, lateResponse>>

\* lines 94-135: the text call fulfils with a JSON array; map issues one image
\* call per element, then fetchProducts awaits Promise.all
TextResolve(reply) ==
    /\ pc = "awaitText"
    /\ textCall = "pending"
    /\ textCall' = "fulfilled"
    /\ productTextData' = reply
    /\ LET calls == [i \in 1..Len(reply) |-> PendingCall]
       IN  imageCalls' = calls /\ AwaitPromiseAll(calls)
    /\ UNCHANGED <<isChatOpen, firstFulfilled, lateResponse>>

\* line 94 rejects (transport or service error)
TextReject ==
    /\ pc = "awaitText"
    /\ textCall = "pending"
    /\ textCall' = "rejected"
    /\ CatchThenFinally
    /\ UNCHANGED <<isChatOpen, productTextData, imageCalls, firstFulfilled, lateResponse>>

\* A parse failure answered with a built-in list, whose images are then fetched.
TextUnparsableFallsBack ==
    /\ pc = "awaitText"
    /\ textCall = "pending"
    /\ textCall' = "unparsable"
    /\ productTextData' = Reply(1, 0)
    /\ imageCalls' = <<PendingCall>>
    /\ pc' = "awaitAll"
    /\ UNCHANGED <<ui, isChatOpen, firstFulfilled, lateResponse>>

\* line 114 throws: the call fulfils with a text JSON.parse rejects
TextUnparsable ==
    /\ pc = "awaitText"
    /\ textCall = "pending"
    /\ textCall' = "unparsable"
    /\ CatchThenFinally
    /\ UNCHANGED <<isChatOpen, productTextData, imageCalls, firstFulfilled, lateResponse>>

\* image call i never responds
ImageHang(i) ==
    /\ imageCalls[i].status = "pending"
    /\ HungCount < MaxHung
    /\ imageCalls' = [imageCalls EXCEPT ![i].status = "hung"]
    /\ UNCHANGED <<ui, isChatOpen, pc, textCall, productTextData,
                   firstFulfilled, lateResponse>>

\* lines 119-135: image call i fulfils with imageBytes b; its callback builds
\* the product, and Promise.all may fulfil
ImageResolve(i, b) ==
    /\ imageCalls[i].status = "pending"
    /\ LET calls == [imageCalls EXCEPT ![i] =
                        [status |-> "fulfilled", bytes |-> b,
                         value |-> MergeProduct(productTextData[i], ImageUrl(b))]]
       IN  imageCalls' = calls /\ ResumeFetchProducts(calls)
    /\ firstFulfilled' = IF firstFulfilled = 0 THEN i ELSE firstFulfilled
    /\ lateResponse' = (lateResponse \/ pc = "done")
    /\ UNCHANGED <<isChatOpen, textCall, productTextData>>

\* The rejection of one image is swallowed, as Promise.allSettled would do:
\* the grid shows the products whose image arrived.
ImageRejectSkipped(i) ==
    /\ imageCalls[i].status = "pending"
    /\ LET calls == [imageCalls EXCEPT ![i].status = "rejected"]
           rest == SelectSeq(calls, LAMBDA c : c.status # "rejected")
       IN  /\ imageCalls' = calls
           /\ IF pc = "done" THEN UNCHANGED <<ui, pc>>
              ELSE IF AllFulfilled(rest)
                   THEN SetProductsThenFinally(PromiseAllValues(rest))
                   ELSE UNCHANGED <<ui, pc>>
    /\ lateResponse' = (lateResponse \/ pc = "done")
    /\ UNCHANGED <<isChatOpen, textCall, productTextData, firstFulfilled>>

\* lines 119-129: image call i rejects, or fulfils without generatedImages[0]
\* so that line 129 throws; either way promise i rejects and so does Promise.all
ImageReject(i) ==
    /\ imageCalls[i].status = "pending"
    /\ LET calls == [imageCalls EXCEPT ![i].status = "rejected"]
       IN  imageCalls' = calls /\ ResumeFetchProducts(calls)
    /\ lateResponse' = (lateResponse \/ pc = "done")
    /\ UNCHANGED <<isChatOpen, textCall, productTextData, firstFulfilled>>

ToggleChatRemountingApp ==
    /\ isChatOpen' = ~isChatOpen
    /\ products' = <<>>
    /\ UNCHANGED <<loading, error, pc, textCall, productTextData, imageCalls,
                   firstFulfilled, lateResponse>>

\* line 57: onClick of the chat bubble
ToggleChat ==
    /\ isChatOpen' = ~isChatOpen
    /\ UNCHANGED <<ui, pc, textCall, productTextData, imageCalls,
                   firstFulfilled, lateResponse>>

\* line 63: onClick of the close button
CloseChat ==
    /\ isChatOpen' = FALSE
    /\ UNCHANGED <<ui, pc, textCall, productTextData, imageCalls,
                   firstFulfilled, lateResponse>>

-----------------------------------------------------------------------------
TextRespond ==
    \/ \E reply \in TextReplies : TextResolve(reply)
    \/ TextReject
    \/ TextUnparsable

ImageRespond(i) ==
    \/ \E b \in ImageBytes : ImageResolve(i, b)
    \/ ImageReject(i)

Next ==
    \/ Start
    \/ TextHang
    \/ \E reply \in TextReplies : TextResolve(reply)
    \/ TextReject
    \/ TextUnparsable
    \/ \E i \in 1..Len(imageCalls) : ImageHang(i)
    \/ \E i \in 1..Len(imageCalls) : \E b \in ImageBytes : ImageResolve(i, b)
    \/ \E i \in 1..Len(imageCalls) : ImageReject(i)
    \/ ToggleChat
    \/ CloseChat

Spec == Init /\ [][Next]_vars

\* Every network call responds: no call hangs, and a pending call is answered.
NextResponsive ==
    \/ Start
    \/ \E reply \in TextReplies : TextResolve(reply)
    \/ TextReject
    \/ TextUnparsable
    \/ \E i \in 1..Len(imageCalls) : \E b \in ImageBytes : ImageResolve(i, b)
    \/ \E i \in 1..Len(imageCalls) : ImageReject(i)
    \/ ToggleChat
    \/ CloseChat

FairSpec ==
    /\ Init
    /\ [][NextResponsive]_vars
    /\ WF_vars(Start)
    /\ WF_vars(TextRespond)
    /\ \A i \in 1..MaxCalls : WF_vars(i <= Len(imageCalls) /\ ImageRespond(i))

-----------------------------------------------------------------------------
TypeOK ==
    /\ loading \in BOOLEAN
    /\ isChatOpen \in BOOLEAN
    /\ error \in {"", ErrorMessage}
    /\ pc \in {"mounted", "awaitText", "awaitAll", "done"}
    /\ textCall \in {"idle", "pending", "hung", "fulfilled", "rejected", "unparsable"}
    /\ Len(imageCalls) = Len(productTextData)
    /\ firstFulfilled \in 0..Len(imageCalls)
    /\ lateResponse \in BOOLEAN

-----------------------------------------------------------------------------
(* Vocabulary of the properties *)

TextFailed == textCall \in {"rejected", "unparsable"}

InFlight(i) == imageCalls[i].status \in {"pending", "hung"}

Succeeded == pc = "done" /\ error = ""

Failed == pc = "done" /\ error # ""

\* Each ProductSpec of the text reply merged with the bytes its own image call returned.
MergedSequence ==
    [i \in 1..Len(productTextData) |->
        [name |-> productTextData[i].name,
         description |-> productTextData[i].description,
         price |-> productTextData[i].price,
         imageUrl |-> DataUriPrefix \o imageCalls[i].bytes]]

SpecOf(p) == [name |-> p.name, description |-> p.description, price |-> p.price]

-----------------------------------------------------------------------------
\* C1: after a successful run the products sequence has as many entries as the
\* text reply, and its i-th product is built from the reply's i-th ProductSpec,
\* whatever the order in which the image calls completed.
C1_OrderIsTextReplyOrder ==
    Succeeded =>
        /\ Len(products) = Len(productTextData)
        /\ \A i \in 1..Len(products) : SpecOf(products[i]) = productTextData[i]

\* A successful run of three products whose last image call completed first.
C1_Witness ==
    /\ Succeeded
    /\ Len(products) = 3
    /\ firstFulfilled = 3

\* C2: once an image call has failed, the UI is in the error state: the static
\* message is set and rendered, products is empty, the grid is not rendered.
C2_ImageFailureIsAllOrNothing ==
    AnyRejected(imageCalls) =>
        /\ textCall = "fulfilled"
        /\ error = ErrorMessage
        /\ loading = FALSE
        /\ products = <<>>
        /\ ErrorRendered
        /\ ~GridRendered
        /\ RenderedCount = 0

\* One image call failed, every other one delivered its image.
C2_Witness ==
    /\ Len(imageCalls) = 3
    /\ imageCalls[2].status = "rejected"
    /\ imageCalls[1].status = "fulfilled"
    /\ imageCalls[3].status = "fulfilled"

\* C3: after a failed text call (rejected, or a reply that does not parse) no
\* image call has been issued, in any later state, and the UI is in the error state.
C3_TextFailureIssuesNoImageCall ==
    TextFailed =>
        /\ Len(imageCalls) = 0
        /\ pc = "done"
        /\ error = ErrorMessage
        /\ loading = FALSE
        /\ products = <<>>

\* The reply did not parse, and the page has been used since.
C3_Witness == textCall = "unparsable" /\ isChatOpen

\* C4 as claimed: after a successful run the rendered count equals the reply's
\* count and is at most the requested count.
C4_CountBoundedByRequestedCount ==
    Succeeded =>
        /\ RenderedCount = Len(productTextData)
        /\ RenderedCount <= RequestedCount

\* C4 as amended: after a successful run the rendered count equals the reply's
\* count (which the code does not limit to the requested count).
C4_CountEqualsTextReplyCount ==
    Succeeded => RenderedCount = Len(productTextData)

\* A successful run whose reply was one item longer than requested.
C4_Witness == Succeeded /\ RenderedCount = RequestedCount + 1

\* C5: a step that changes isChatOpen changes nothing else: not products,
\* loading or error, and not the progress of the workflow and its calls.
C5_ChatChangesOnlyChatOpen ==
    [][isChatOpen' # isChatOpen =>
          UNCHANGED <<products, loading, error, pc, textCall, productTextData,
                      imageCalls, firstFulfilled, lateResponse>>]_vars

\* The chat is open while products are on display.
C5_Witness == isChatOpen /\ Succeeded /\ Len(products) = 2

\* C6: after a successful run each product has the name, description and price of
\* its ProductSpec and the image URL made of the prefix and the bytes that the
\* image call issued for that ProductSpec returned.
C6_ProductKeepsSpecAndOwnImage ==
    Succeeded =>
        \A i \in 1..Len(products) :
            /\ i <= Len(productTextData)
            /\ products[i].name = productTextData[i].name
            /\ products[i].description = productTextData[i].description
            /\ products[i].price = productTextData[i].price
            /\ products[i].imageUrl = DataUriPrefix \o imageCalls[i].bytes

\* Two products with different images, the second image having arrived first.
C6_Witness ==
    /\ Succeeded
    /\ Len(products) = 2
    /\ firstFulfilled = 2
    /\ products[1].name = "Boss Tee"
    /\ products[1].price = 2499
    /\ products[1].imageUrl = "data:image/png;base64,AAAA"
    /\ products[2].imageUrl = "data:image/png;base64,BBBB"

\* C7 as claimed: while some issued network call never completes, loading is true.
C7_HungCallKeepsLoading == HungCount > 0 => loading = TRUE

\* C7 as amended: while the text call never completes, or an image call never
\* completes and no image call has failed, loading is true.
C7_HungCallKeepsLoadingUnlessImageFails ==
    (\/ textCall = "hung"
     \/ /\ \E i \in 1..Len(imageCalls) : imageCalls[i].status = "hung"
        /\ ~AnyRejected(imageCalls))
    => loading = TRUE

\* One image call hangs, every other image call has delivered.
C7_Witness ==
    /\ Len(imageCalls) = 3
    /\ imageCalls[2].status = "hung"
    /\ imageCalls[1].status = "fulfilled"
    /\ imageCalls[3].status = "fulfilled"

\* C8: when every issued call responds, the run eventually has loading false for
\* good, in exactly one outcome: no error and the merged sequence as products, or
\* the error message and no products.
C8_RunsToCompletionOrFailure ==
    <>[](/\ loading = FALSE
         /\ pc = "done"
         /\ (error = "" /\ products = MergedSequence)
              # (error = ErrorMessage /\ products = <<>>))

\* Every image call has responded and the run has ended with products.
C8_Witness ==
    /\ Succeeded
    /\ loading = FALSE
    /\ Len(products) = RequestedCount

\* C9 as claimed: when loading is false no image request is in flight.
C9_NoOutputWhileImageInFlight ==
    loading = FALSE => \A i \in 1..Len(imageCalls) : ~InFlight(i)

\* C9 as amended: when loading is false and no error is set (the products are
\* the output), no image request is in flight.
C9_NoProductsWhileImageInFlight ==
    (loading = FALSE /\ error = "") => \A i \in 1..Len(imageCalls) : ~InFlight(i)

\* The grid is shown after a fan-out of three.
C9_Witness == GridRendered /\ Len(imageCalls) = 3 /\ Len(products) = 3

\* C10: from the failure outcome every step leaves products empty, error set to
\* its message and loading false.
C10_FailureOutcomeIsFinal ==
    [][(Failed /\ loading = FALSE) =>
          /\ products = <<>>
          /\ products' = <<>>
          /\ error' = error
          /\ loading' = FALSE]_vars

\* After the failure, an image call that was in flight delivered its image.
C10_Witness ==
    /\ Failed
    /\ lateResponse
    /\ Len(imageCalls) = 2
    /\ imageCalls[1].status = "rejected"
    /\ imageCalls[2].status = "fulfilled"

====
